---- MODULE Spec2Model ----
(***************************************************************************)
(* The heuristic scoring engine of the Clyst marketplace:                  *)
(*   ai_image_detector.py        detect_ai_image and its four extractors   *)
(*   sustainability_classifier.py classify_product_sustainability          *)
(*                                                                         *)
(* Numbers.  Every score is held as an integer number of thousandths of a  *)
(* point (80.0 is 80000), so that the weighted sums and the 2-decimal      *)
(* rounding of the code are computed exactly.  The code computes in IEEE   *)
(* doubles; on every sub-score combination the extractors can return the   *)
(* double results of the threshold tests and of round(x, 2) equal the      *)
(* exact ones (no reachable sum is a rounding tie), so the exact           *)
(* arithmetic below is the arithmetic of the code.                         *)
(*                                                                         *)
(* Text.  A Python str is a sequence of one-character strings; None is a   *)
(* value of its own.                                                       *)
(***************************************************************************)
EXTENDS Integers, Sequences, FiniteSets, TLC

VARIABLES
  installed,  \* which optional libraries the interpreter can import
  module,     \* ai_image_detector: "unloaded", "loaded" or "import_error"
  flags,      \* PIL_AVAILABLE, NUMPY_AVAILABLE, SCIPY_AVAILABLE, CV2_AVAILABLE
  rng,        \* state of NumPy's process-wide random generator (np.random)
  hashseed,   \* the interpreter's string-hash seed (orders list(set(...)))
  call        \* the call in hand: its arguments, environment, result and log

vars == <<installed, module, flags, rng, hashseed, call>>

------------------------------------------------------------------------------
(* Python values *)

None == <<"<None>">>

Truthy(s) == s # None /\ s # <<>>

Min(a, b) == IF a <= b THEN a ELSE b

Max(a, b) == IF a >= b THEN a ELSE b

\* n points as thousandths of a point
Pts(n) == n * 1000

lowerOf ==
  ("A" :> "a") @@ ("B" :> "b") @@ ("C" :> "c") @@ ("D" :> "d") @@ ("E" :> "e") @@
  ("F" :> "f") @@ ("G" :> "g") @@ ("H" :> "h") @@ ("I" :> "i") @@ ("J" :> "j") @@
  ("K" :> "k") @@ ("L" :> "l") @@ ("M" :> "m") @@ ("N" :> "n") @@ ("O" :> "o") @@
  ("P" :> "p") @@ ("Q" :> "q") @@ ("R" :> "r") @@ ("S" :> "s") @@ ("T" :> "t") @@
  ("U" :> "u") @@ ("V" :> "v") @@ ("W" :> "w") @@ ("X" :> "x") @@ ("Y" :> "y") @@
  ("Z" :> "z")

\* str.lower()
Lower(s) == [i \in 1..Len(s) |-> IF s[i] \in DOMAIN lowerOf THEN lowerOf[s[i]] ELSE s[i]]

\* the Python test `keyword in text`
Contains(text, keyword) ==
  \E i \in 1..(Len(text) - Len(keyword) + 1) :
     \A j \in 1..Len(keyword) : text[i + j - 1] = keyword[j]

\* a variant of Round2 that rounds to whole points
RoundWhole(x) ==
  LET q == x \div 1000
      r == x % 1000
  IN  IF r > 500 \/ (r = 500 /\ q % 2 = 1) THEN (q + 1) * 1000 ELSE q * 1000

\* round(x, 2) of a value x >= 0 given in thousandths: to the nearest
\* hundredth, a tie to the even one
Round2(x) ==
  LET q == x \div 10
      r == x % 10
  IN  IF r > 5 \/ (r = 5 /\ q % 2 = 1) THEN (q + 1) * 10 ELSE q * 10

\* round(n/d, 0) for n >= 0, d > 0, a tie to the even integer
RoundDiv(n, d) ==
  LET q == n \div d
      r == n % d
  IN  IF 2 * r > d \/ (2 * r = d /\ q % 2 = 1) THEN q + 1 ELSE q

------------------------------------------------------------------------------
(* Regular expressions, as far as the pattern lists use them: a pattern is *)
(* a set of alternatives (the top-level |), an alternative a sequence of   *)
(* elements, an element a character class with a quantifier.               *)

Digits == {"0", "1", "2", "3", "4", "5", "6", "7", "8", "9"}

Spaces == {" ", "\t"}

One(cls) == [q |-> "1", any |-> FALSE, cs |-> cls]

Opt(cls) == [q |-> "?", any |-> FALSE, cs |-> cls]

Plus(cls) == [q |-> "+", any |-> FALSE, cs |-> cls]

AnyEl(quant) == [q |-> quant, any |-> TRUE, cs |-> {}]

Lit(s) == [i \in 1..Len(s) |-> One({s[i]})]

RECURSIVE MatchAt(_, _, _, _)
\* elements k.. of alternative p match text t from position i on
MatchAt(p, k, t, i) ==
  IF k > Len(p) THEN TRUE
  ELSE LET e == p[k]
           here == i <= Len(t) /\ (e.any \/ t[i] \in e.cs)
       IN  CASE e.q = "1" -> here /\ MatchAt(p, k + 1, t, i + 1)
             [] e.q = "?" -> (here /\ MatchAt(p, k + 1, t, i + 1)) \/ MatchAt(p, k + 1, t, i)
             [] e.q = "+" -> here /\ (MatchAt(p, k, t, i + 1) \/ MatchAt(p, k + 1, t, i + 1))
             [] e.q = "*" -> MatchAt(p, k + 1, t, i) \/ (here /\ MatchAt(p, k, t, i + 1))

\* re.search(pattern, text)
re_search(pattern, t) ==
  \E p \in pattern : \E i \in 1..(Len(t) + 1) : MatchAt(p, 1, t, i)

AI_SERVICE_PATTERNS ==
  << {Lit(<<"m","i","d","j","o","u","r","n","e","y",".","c","o","m">>)},
     {Lit(<<"o","p","e","n","a","i",".","c","o","m">>)},
     {Lit(<<"c","d","n",".","o","p","e","n","a","i",".","c","o","m">>)},
     {Lit(<<"s","t","a","b","i","l","i","t","y",".","a","i">>)},
     {Lit(<<"r","e","p","l","i","c","a","t","e",".","c","o","m">>)},
     {Lit(<<"p","l","a","y","g","r","o","u","n","d",".","a","i">>)},
     {Lit(<<"l","e","x","i","c","a",".","a","r","t">>)},
     {Lit(<<"d","a","l","l","-","e">>)},
     {Lit(<<"d","a","l","l","e">>)},
     {Lit(<<"s","t","a","b","l","e","d","i","f","f","u","s","i","o","n">>)},
     {Lit(<<"d","r","e","a","m","s","t","u","d","i","o">>)},
     {Lit(<<"n","i","g","h","t","c","a","f","e">>)},
     {Lit(<<"a","r","t","b","r","e","e","d","e","r">>)},
     {Lit(<<"c","r","a","i","y","o","n">>)},
     {Lit(<<"b","l","u","e","w","i","l","l","o","w">>)},
     {Lit(<<"d","i","s","c","o","r","d",".","g","g">>)},
     {Lit(<<"d","i","s","c","o","r","d","a","p","p",".","c","o","m">>)},
     {Lit(<<"d","i","s","c","o","r","d","a","p","p",".","n","e","t">>)} >>

AI_FILENAME_PATTERNS ==
  << {Lit(<<"a","i">>) \o <<Opt({"_","-"})>> \o Lit(<<"g","e","n","e","r","a","t","e","d">>)},
     {Lit(<<"m","i","d","j","o","u","r","n","e","y">>)},
     {Lit(<<"d","a","l","l">>) \o <<Opt({"_","-"})>> \o Lit(<<"e">>)},
     {Lit(<<"s","t","a","b","l","e">>) \o <<Opt({"_","-"})>> \o Lit(<<"d","i","f","f","u","s","i","o","n">>)},
     {Lit(<<"a","i">>) \o <<Opt({"_","-"})>> \o Lit(<<"a","r","t">>)},
     {Lit(<<"g","e","n","e","r","a","t","e","d">>) \o <<Opt({"_","-"})>> \o Lit(<<"i","m","a","g","e">>)},
     {Lit(<<"s","y","n","t","h","e","t","i","c">>)},
     {Lit(<<"p","r","o","m","p","t">>) \o <<Opt({"_","-"})>> \o <<Plus(Digits)>>},
     {Lit(<<"s","e","e","d">>) \o <<Opt({"_","-"})>> \o <<Plus(Digits)>>},
     {Lit(<<"c","f","g">>) \o <<Opt({"_","-"})>> \o Lit(<<"s","c","a","l","e">>)},
     {Lit(<<"d","r","e","a","m","b","o","o","t","h">>)},
     {Lit(<<"l","o","r","a">>) \o <<Opt({"_","-"})>> \o Lit(<<"m","o","d","e","l">>)},
     {Lit(<<"c","h","a","t","g","p","t">>) \o <<Opt({"_","-"} \cup Spaces)>> \o Lit(<<"i","m","a","g","e">>)},
     {Lit(<<"g","p","t">>) \o <<Opt({"_","-"})>> \o <<Plus(Digits)>> \o <<Opt({"_","-"} \cup Spaces)>> \o Lit(<<"i","m","a","g","e">>)},
     {Lit(<<"c","l","a","u","d","e">>) \o <<Opt({"_","-"} \cup Spaces)>> \o Lit(<<"i","m","a","g","e">>)},
     {Lit(<<"g","e","m","i","n","i">>) \o <<Opt({"_","-"} \cup Spaces)>> \o Lit(<<"i","m","a","g","e">>)},
     {Lit(<<"c","o","p","i","l","o","t">>) \o <<Opt({"_","-"} \cup Spaces)>> \o Lit(<<"i","m","a","g","e">>)},
     {Lit(<<"b","i","n","g">>) \o <<Opt({"_","-"} \cup Spaces)>> \o Lit(<<"i","m","a","g","e">>) \o <<Opt({"_","-"} \cup Spaces)>> \o Lit(<<"c","r","e","a","t","o","r">>)},
     {Lit(<<"a","i">>) \o <<Opt({"_","-"} \cup Spaces)>> \o Lit(<<"a","s","s","i","s","t","a","n","t">>)},
     {Lit(<<"i","m","a","g","e">>) \o <<Opt({"_","-"} \cup Spaces)>> \o <<Plus(Digits)>> \o <<Opt({"_","-"} \cup Spaces)>> \o <<Plus(Digits)>> \o <<Opt({"_","-"} \cup Spaces)>> \o <<Plus(Digits)>> \o <<AnyEl("*")>> \o Lit(<<"p","m">>), Lit(<<"a","m">>)},
     {Lit(<<"s","c","r","e","e","n","s","h","o","t">>) \o <<Opt({"_","-"} \cup Spaces)>> \o <<One(Digits),One(Digits),One(Digits),One(Digits)>> \o <<Opt({"_","-"})>> \o <<One(Digits),One(Digits)>> \o <<Opt({"_","-"})>> \o <<One(Digits),One(Digits)>>} >>

------------------------------------------------------------------------------
(* ai_image_detector.py: the URL / filename extractor *)

DetectionResult(d, s, m, det) == [detected |-> d, score |-> s, method |-> m, details |-> det]

\* the indices of the patterns of a list that re.search finds in the text, in list order
Hits(patterns, text) ==
  LET Hit(i) == re_search(patterns[i], text)
  IN  SelectSeq([i \in 1..Len(patterns) |-> i], Hit)

\* a variant of url_score with a base of 20 points, which a single match
\* leaves below the short-circuit threshold
url_score_low_base(n) == Min(Pts(95), Pts(n * 30 + 20))

url_score(n) == Min(Pts(95), Pts(n * 30 + 50))

check_url_patterns(image_url) ==
  IF ~Truthy(image_url)
  THEN DetectionResult(FALSE, 0, "url_check", <<>>)
  ELSE LET url_lower == Lower(image_url)
           svc == Hits(AI_SERVICE_PATTERNS, url_lower)
           fnm == Hits(AI_FILENAME_PATTERNS, url_lower)
           details == [i \in 1..Len(svc) |-> <<"URL contains AI service pattern", svc[i]>>]
                      \o [i \in 1..Len(fnm) |-> <<"Filename contains AI indicator", fnm[i]>>]
       IN  IF details # <<>>
           THEN DetectionResult(TRUE, url_score(Len(details)), "url_pattern_analysis", details)
           ELSE DetectionResult(FALSE, 0, "url_check", <<>>)

\* the references the calls are drawn from
U_shop == <<"s","h","o","p",".","i","o","/","p","1",".","j","p","g">>

U_upload == <<"/","u","p","/","p","1",".","j","p","g">>

U_openai == <<"o","p","e","n","a","i",".","c","o","m","/","i",".","p","n","g">>

U_cdn == <<"C","D","N",".","O","P","E","N","A","I",".","C","O","M","/","I",".","P","N","G">>

U_example == <<"e","x","a","m","p","l","e",".","c","o","m","/","p","h","o","t","o","-","1",".","j","p","g">>

ImageUrls == {None, <<>>, U_shop, U_upload, U_openai, U_cdn, U_example}

\* references that may name a file on the local disk
LocalPaths == {U_upload}

\* check_url_patterns is pure: its results on the references the calls draw
url_check == [u \in ImageUrls |-> check_url_patterns(u)]

------------------------------------------------------------------------------
(* Image acquisition, the block each of the three image extractors starts  *)
(* with.  isfile: the reference names a local file.  res is what the      *)
(* reference resolves to: res.body ("ok", "garbage": Image.open raises,      *)
(* "truncated": Image.open succeeds and the pixel load raises) and         *)
(* res.img, the decoded image's features.  reply is what requests.get      *)
(* does for this extractor: "ok", "http_error" (status # 200) or           *)
(* "exception" (connection error, timeout, invalid URL).                   *)

acquire(x, isfile, res, reply) ==
  IF isfile
  THEN [log |-> <<<<x, "open">>>>,
        got |-> IF res.body = "garbage" THEN "raise" ELSE "image"]
  ELSE CASE reply = "exception"  -> [log |-> <<<<x, "fetch">>>>, got |-> "raise"]
         [] reply = "http_error" -> [log |-> <<<<x, "fetch">>>>, got |-> "not_200"]
         [] OTHER -> [log |-> <<<<x, "fetch">>, <<x, "open">>>>,
                      got |-> IF res.body = "garbage" THEN "raise" ELSE "image"]

\* img.convert('RGB') / np.array(img): the pixel data is read here
load(x, res) ==
  [log |-> <<<<x, "load">>>>, got |-> IF res.body = "truncated" THEN "raise" ELSE "array"]

\* a variant of failed that leaves no detail note
failed_silent(x, got) ==
  DetectionResult(FALSE, 0, IF x = "metadata" THEN "metadata_check"
                            ELSE IF x = "visual" THEN "visual_check" ELSE "pixel_analysis", <<>>)

\* the except branch and the early returns of an image extractor
failed(x, got) ==
  CASE x = "metadata" /\ got = "not_200" -> DetectionResult(FALSE, 0, "metadata_check", <<"Failed to download image">>)
    [] x = "metadata" -> DetectionResult(FALSE, 0, "metadata_check", <<"Metadata analysis failed">>)
    [] x = "visual" /\ got = "not_200" -> DetectionResult(FALSE, 0, "visual_check", <<"Failed to download">>)
    [] x = "visual" -> DetectionResult(FALSE, 0, "visual_check", <<"Visual analysis failed">>)
    [] x = "pixel" /\ got = "not_200" -> DetectionResult(FALSE, 0, "pixel_analysis", <<"Download failed">>)
    [] x = "pixel" -> DetectionResult(FALSE, 0, "pixel_analysis", <<"Pixel analysis failed">>)

------------------------------------------------------------------------------
(* analyze_image_metadata *)

common_ai_sizes ==
  { <<512, 512>>, <<768, 768>>, <<1024, 1024>>,
    <<512, 768>>, <<768, 512>>, <<512, 1024>>, <<1024, 512>>,
    <<640, 640>>, <<896, 896>> }

\* an exception that no statement of the extractor foresees (a MemoryError,
\* say): extractor x raises it when `after` of its scoring steps are done
NoCrash == [x |-> "none", after |-> 0]

\* the scoring steps of analyze_image_metadata: the EXIF scan, the camera
\* tags, the common sizes, the square sizes, the AI-tool bonus
MetadataSteps == 5

\* the scoring steps of analyze_visual_patterns: variance, symmetry, colour
VisualSteps == 3

\* a variant of metadata_points whose AI-tool bonus has no ceiling
metadata_points_uncapped(img, done) ==
  LET width == img.size[1]
      height == img.size[2]
      found == done >= 1 /\ img.ai_tool
      nocam == done >= 2 /\ ~img.camera /\ img.format \in {"JPEG", "JPG", "PNG"}
      sized == done >= 3
               /\ (<<width, height>> \in common_ai_sizes \/ <<height, width>> \in common_ai_sizes)
      s1 == IF nocam THEN 25 ELSE 0
      s2 == s1 + (IF sized THEN 20 ELSE 0)
      s3 == s2 + (IF done >= 4 /\ width = height /\ width \in {512, 768, 1024} THEN 15 ELSE 0)
  IN  [score |-> IF done >= 5 /\ found THEN s3 + 50 ELSE s3,
       details |-> (IF found THEN <<"EXIF contains AI tool reference">> ELSE <<>>)
                   \o (IF nocam THEN <<"No camera metadata found">> ELSE <<>>)
                   \o (IF sized THEN <<"Image dimensions common in AI generation">> ELSE <<>>)]

\* the score and the details accumulated over lines 242-290 (points) when
\* the first `done` steps have run
metadata_points(img, done) ==
  LET width == img.size[1]
      height == img.size[2]
      found == done >= 1 /\ img.ai_tool
      nocam == done >= 2 /\ ~img.camera /\ img.format \in {"JPEG", "JPG", "PNG"}
      sized == done >= 3
               /\ (<<width, height>> \in common_ai_sizes \/ <<height, width>> \in common_ai_sizes)
      s1 == IF nocam THEN 25 ELSE 0
      s2 == s1 + (IF sized THEN 20 ELSE 0)
      s3 == s2 + (IF done >= 4 /\ width = height /\ width \in {512, 768, 1024} THEN 15 ELSE 0)
  IN  [score |-> IF done >= 5 /\ found THEN Min(90, s3 + 50) ELSE s3,
       details |-> (IF found THEN <<"EXIF contains AI tool reference">> ELSE <<>>)
                   \o (IF nocam THEN <<"No camera metadata found">> ELSE <<>>)
                   \o (IF sized THEN <<"Image dimensions common in AI generation">> ELSE <<>>)]

verdict_of(points, threshold, fired, quiet) ==
  IF points.score >= threshold
  THEN DetectionResult(TRUE, Pts(points.score), fired, points.details)
  ELSE DetectionResult(FALSE, Pts(points.score), quiet, points.details)

\* the except branch after some steps: the note is appended and the return
\* statement below the try block hands out the score gathered so far
interrupted(points, quiet, note) ==
  DetectionResult(FALSE, Pts(points.score), quiet, points.details \o <<note>>)

metadata_outcome(a, res, crash) ==
  CASE a.got # "image" -> [result |-> failed("metadata", a.got), log |-> a.log]
    [] crash.x = "metadata" ->
         [result |-> interrupted(metadata_points(res.img, crash.after), "metadata_check",
                                 "Metadata analysis failed"),
          log |-> a.log]
    [] OTHER ->
         [result |-> verdict_of(metadata_points(res.img, MetadataSteps), 30,
                                "metadata_analysis", "metadata_check"),
          log |-> a.log]

analyze_image_metadata(isfile, res, reply, crash) ==
  IF ~flags.PIL
  THEN [result |-> DetectionResult(FALSE, 0, "metadata_check", <<"PIL not available - metadata analysis skipped">>),
        log |-> <<>>]
  ELSE metadata_outcome(acquire("metadata", isfile, res, reply), res, crash)

------------------------------------------------------------------------------
(* analyze_visual_patterns *)

RECURSIVE SumSeq(_)
SumSeq(xs) == IF xs = <<>> THEN 0 ELSE Head(xs) + SumSeq(Tail(xs))

\* the difference of two uint8 values as NumPy computes it: modulo 2^8
uint8_sub(a, b) == (a - b) % 256

\* np.mean(np.abs(left_half - right_half)) < limit, on uint8 arrays: np.abs
\* of an unsigned array is the array itself; left[i] and right[i] are the
\* samples at mirrored positions
similarity_below(left, right, limit) ==
  SumSeq([i \in 1..Len(left) |-> uint8_sub(left[i], right[i])]) < limit * Len(left)

\* img.variance: the mean per-channel variance is "low" (< 500), "high"
\* (> 5000) or "mid"; img.left, img.right: 8-bit samples of the left half
\* and of the flipped right half; img.color_std: every channel's standard
\* deviation is below 25 ("lt25"), below 30 ("lt30"), or not ("wide").
\* The first `done` steps have run.
visual_points(img, done) ==
  LET width == img.size[1]
      height == img.size[2]
      smooth == done >= 1 /\ img.variance = "low"
      noisy == done >= 1 /\ img.variance = "high"
      \* the halves have the same shape exactly when the width is even
      symmetric == done >= 2 /\ width = height /\ width % 2 = 0
                   /\ similarity_below(img.left, img.right, 10)
      uniform == done >= 3 /\ img.color_std \in {"lt25", "lt30"}
  IN  [score |-> (IF smooth THEN 20 ELSE 0) + (IF noisy THEN 15 ELSE 0)
                 + (IF symmetric THEN 25 ELSE 0) + (IF uniform THEN 15 ELSE 0),
       details |-> (IF smooth THEN <<"Image appears unnaturally smooth (low variance)">> ELSE <<>>)
                   \o (IF noisy THEN <<"Image has unusual high variance pattern">> ELSE <<>>)
                   \o (IF symmetric THEN <<"Image shows unusual perfect symmetry">> ELSE <<>>)
                   \o (IF uniform THEN <<"Unusually uniform color distribution">> ELSE <<>>)]

visual_outcome(a, l, res, crash) ==
  CASE a.got # "image" -> [result |-> failed("visual", a.got), log |-> a.log]
    [] l.got = "raise" -> [result |-> failed("visual", l.got), log |-> a.log \o l.log]
    [] crash.x = "visual" ->
         [result |-> interrupted(visual_points(res.img, crash.after), "visual_check",
                                 "Visual analysis failed"),
          log |-> a.log \o l.log]
    [] OTHER -> [result |-> verdict_of(visual_points(res.img, VisualSteps), 35,
                                       "visual_pattern_analysis", "visual_check"),
                 log |-> a.log \o l.log]

analyze_visual_patterns(isfile, res, reply, crash) ==
  IF ~flags.PIL \/ ~flags.NUMPY
  THEN [result |-> DetectionResult(FALSE, 0, "visual_check", <<"PIL or NumPy not available - visual analysis skipped">>),
        log |-> <<>>]
  ELSE visual_outcome(acquire("visual", isfile, res, reply), load("visual", res), res, crash)
------------------------------------------------------------------------------
(* The five pixel-level analyses.  Each reads the features of the pixel    *)
(* array it is handed (px) and returns points and details.                 *)

Analysis(parts) ==
  LET RECURSIVE Sum(_)
      Sum(i) == IF i = 0 THEN 0 ELSE Sum(i - 1) + (IF parts[i][1] THEN parts[i][2] ELSE 0)
      Said(i) == parts[i][1]
      idx == SelectSeq([i \in 1..Len(parts) |-> i], Said)
  IN  [score |-> Sum(Len(parts)), details |-> [i \in 1..Len(idx) |-> parts[idx[i]][3]]]

analyze_noise_patterns(px) ==
  Analysis(<< <<px.vov_low, 25, "Unnaturally uniform noise pattern detected">>,
              <<flags.CV2 /\ px.hf_low, 20, "Suspiciously low high-frequency noise">>,
              <<flags.CV2 /\ px.hf_std_low, 15, "Uniform noise distribution (AI characteristic)">> >>)

\* sampled: what the |r| < 0.1 test on the randomly chosen sample gives
analyze_color_distribution(px, color_std, sampled) ==
  Analysis(<< <<px.peaks >= 1, 5, "Red channel has suspicious histogram peaks">>,
              <<px.zeros >= 1, 8, "Red channel missing values (quantization)">>,
              <<px.peaks >= 2, 5, "Green channel has suspicious histogram peaks">>,
              <<px.zeros >= 2, 8, "Green channel missing values (quantization)">>,
              <<px.peaks >= 3, 5, "Blue channel has suspicious histogram peaks">>,
              <<px.zeros >= 3, 8, "Blue channel missing values (quantization)">>,
              <<color_std = "lt25", 15, "Suspiciously uniform colors across image">>,
              <<sampled, 12, "Unusual RGB channel correlation">> >>)

analyze_edge_characteristics(px) ==
  IF ~flags.CV2
  THEN [score |-> 0, details |-> <<"OpenCV not available - edge analysis skipped">>]
  ELSE Analysis(<< <<px.edges_sharp, 18, "Unusually high proportion of sharp edges">>,
                   <<px.edges_flat, 15, "Edge transitions too uniform">>,
                   <<px.edges_few, 12, "Suspiciously few edges detected">>,
                   <<px.focus = "sharp", 10, "Unnatural sharpness pattern">>,
                   <<px.focus = "blurred", 10, "Unusually blurred throughout">> >>)

analyze_frequency_domain(px, shape) ==
  IF ~flags.SCIPY
  THEN [score |-> 0, details |-> <<"SciPy not available - FFT analysis skipped">>]
  ELSE IF Max(shape[1], shape[2]) > 512 /\ ~flags.CV2
  THEN [score |-> 0, details |-> <<"Image too large for FFT without cv2">>]
  ELSE Analysis(<< <<px.periodic, 20, "Unusual frequency domain periodicity detected">>,
                   <<px.energy = "high", 25, "Suspicious frequency energy distribution (GAN artifact)">>,
                   <<px.energy = "low", 15, "Unusual high-frequency emphasis">>,
                   <<px.grid, 18, "Grid pattern detected (upsampling artifact)">> >>)

\* sampled: what the variance test on the randomly placed patches gives
analyze_gan_fingerprints(px, sampled) ==
  Analysis(<< <<flags.CV2 /\ px.checker, 20, "Checkerboard artifact detected">>,
              <<sampled, 15, "Inconsistent local texture (GAN characteristic)">>,
              <<flags.CV2 /\ px.blob, 12, "Unnatural smoothness (blob artifacts)">>,
              <<flags.CV2 /\ px.saturation = "high", 15, "Unnaturally high uniform saturation">>,
              <<flags.CV2 /\ px.saturation = "low", 10, "Unnaturally low saturation">> >>)

\* calls of np.random one analysis of an array of this shape makes:
\* one np.random.choice, and two np.random.randint per sampled patch
random_calls(shape) == 1 + 2 * Min(20, (shape[1] \div 32) * (shape[2] \div 32))

------------------------------------------------------------------------------
(* analyze_pixel_level_features *)

\* the (width, height) of the array the analyses are handed
resized(size) ==
  LET m == Max(size[1], size[2])
  IN  IF m > 1024 /\ flags.CV2
      THEN << (size[1] * 1024) \div m, (size[2] * 1024) \div m >>
      ELSE size

normalized_score(total_score) == Min(Pts(100), total_score * 700)

\* coin: what the two random samplings of this call turn out to give on an
\* image whose feature is on the edge of the threshold
pixel_analyses(img, coin) ==
  LET px == img.px
      shape == resized(img.size)
      corr_low == px.corr = "low" \/ (px.corr = "borderline" /\ coin.corr)
      patch_high == px.patch = "high" \/ (px.patch = "mixed" /\ coin.patch)
  IN  << <<"Noise Analysis", analyze_noise_patterns(px)>>,
         <<"Color Analysis", analyze_color_distribution(px, img.color_std, corr_low)>>,
         <<"Edge Analysis", analyze_edge_characteristics(px)>>,
         <<"Frequency Analysis", analyze_frequency_domain(px, shape)>>,
         <<"GAN Fingerprint", analyze_gan_fingerprints(px, patch_high)>> >>

\* lines 856-909: the scores of the analyses summed, scaled and capped; an
\* is the five analyses' names and results in the order they are run
pixel_result_of(an) ==
  LET RECURSIVE Total(_)
      Total(i) == IF i = 0 THEN 0 ELSE Total(i - 1) + an[i][2].score
      Scored(i) == an[i][2].score > 0
      scored == SelectSeq([i \in 1..Len(an) |-> i], Scored)
      normalized == normalized_score(Total(Len(an)))
  IN  [detected |-> normalized >= Pts(35),
       score |-> normalized,
       method |-> "advanced_pixel_analysis",
       details |-> [i \in 1..Len(scored) |->
                      <<an[scored[i]][1], an[scored[i]][2].score,
                        SubSeq(an[scored[i]][2].details, 1, Min(2, Len(an[scored[i]][2].details)))>>],
       analysis_breakdown |->
         [noise |-> an[1][2].score, color |-> an[2][2].score, edges |-> an[3][2].score,
          frequency |-> an[4][2].score, gan |-> an[5][2].score]]

\* the five analyses analyze_pixel_level_features runs in turn
PixelSteps == 5

pixel_outcome(a, l, res, coin, crash) ==
  CASE a.got # "image" -> [result |-> failed("pixel", a.got), log |-> a.log, draws |-> 0]
    [] l.got = "raise" -> [result |-> failed("pixel", l.got), log |-> a.log \o l.log, draws |-> 0]
    [] crash.x = "pixel" ->
         [result |-> failed("pixel", "raise"), log |-> a.log \o l.log,
          draws |-> IF crash.after >= PixelSteps THEN random_calls(resized(res.img.size)) ELSE 0]
    [] OTHER -> [result |-> pixel_result_of(pixel_analyses(res.img, coin)),
                 log |-> a.log \o l.log,
                 draws |-> random_calls(resized(res.img.size))]

analyze_pixel_level_features(isfile, res, reply, coin, crash) ==
  IF ~flags.PIL \/ ~flags.NUMPY
  THEN [result |-> DetectionResult(FALSE, 0, "pixel_analysis", <<"PIL or NumPy not available - pixel analysis skipped">>),
        log |-> <<>>, draws |-> 0]
  ELSE pixel_outcome(acquire("pixel", isfile, res, reply), load("pixel", res), res, coin, crash)

------------------------------------------------------------------------------
(* detect_ai_image *)

\* a variant of combined_score that weights the four signals alike
combined_score_even(url, metadata, visual, pixel) ==
  (url * 25 + metadata * 25 + visual * 25 + pixel * 25) \div 100

combined_score(url, metadata, visual, pixel) ==
  (url * 25 + metadata * 20 + visual * 15 + pixel * 40) \div 100

\* a variant of is_ai with a strict threshold
is_ai_strict(combined) == combined > Pts(40)

is_ai(combined) == combined >= Pts(40)

\* a variant of confidence_level whose bands exclude their lower bounds
confidence_level_exclusive(combined) ==
  IF combined > Pts(70) THEN "high"
  ELSE IF combined > Pts(50) THEN "medium"
  ELSE IF combined > Pts(30) THEN "low"
  ELSE "unlikely"

confidence_level(combined) ==
  IF combined >= Pts(70) THEN "high"
  ELSE IF combined >= Pts(50) THEN "medium"
  ELSE IF combined >= Pts(30) THEN "low"
  ELSE "unlikely"

\* a variant of primary_method that prefers the basic visual label
primary_method_visual_first(url_result, metadata_result, visual_result, pixel_result) ==
  LET methods == (IF url_result.detected THEN <<"URL patterns">> ELSE <<>>)
                 \o (IF metadata_result.detected THEN <<"metadata">> ELSE <<>>)
                 \o (IF visual_result.detected THEN <<"visual patterns">>
                     ELSE IF pixel_result.detected THEN <<"advanced pixel analysis">> ELSE <<>>)
  IN  IF methods # <<>> THEN methods ELSE <<"heuristic analysis">>

\* the names of the extractors that fired, which ', '.join(methods) joins
primary_method(url_result, metadata_result, visual_result, pixel_result) ==
  LET methods == (IF url_result.detected THEN <<"URL patterns">> ELSE <<>>)
                 \o (IF metadata_result.detected THEN <<"metadata">> ELSE <<>>)
                 \o (IF pixel_result.detected THEN <<"advanced pixel analysis">>
                     ELSE IF visual_result.detected THEN <<"visual patterns">> ELSE <<>>)
  IN  IF methods # <<>> THEN methods ELSE <<"heuristic analysis">>

\* f"{x:.1f}" of a value in thousandths
Fmt1(x) == RoundDiv(x, 100)

no_result == [result |-> [detected |-> FALSE, score |-> 0, details |-> <<>>], log |-> <<>>, draws |-> 0]

\* lines 969-1037: the weighted combination of the four results
weighted(url_result, metadata_result, visual_result, pixel_result, combined) ==
  [is_ai_generated |-> is_ai(combined),
   confidence_score |-> Round2(combined),
   detection_method |-> primary_method(url_result, metadata_result, visual_result, pixel_result),
   details |->
     [url_analysis |-> url_result.details,
      metadata_analysis |-> metadata_result.details,
      visual_analysis |-> visual_result.details,
      pixel_analysis |-> pixel_result.details,
      url_score |-> url_result.score,
      metadata_score |-> metadata_result.score,
      visual_score |-> visual_result.score,
      pixel_score |-> pixel_result.score,
      confidence_level |-> confidence_level(combined)]
     @@ (IF "analysis_breakdown" \in DOMAIN pixel_result
         THEN [pixel_analysis_breakdown |-> pixel_result.analysis_breakdown]
         ELSE <<>>)
     @@ (IF pixel_result.score > 0
         THEN [analysis_summary |->
                 <<Fmt1(combined), Fmt1(url_result.score), Fmt1(metadata_result.score),
                   Fmt1(visual_result.score), Fmt1(pixel_result.score)>>]
         ELSE <<>>)]

\* steps 2 to 4 done (m, v, p: what the extractors returned), the rest of the call
combine(url_result, m, v, p, both) ==
  [verdict |-> weighted(url_result, m.result, v.result, p.result,
                        combined_score(url_result.score, m.result.score, v.result.score, p.result.score)),
   path |-> "weighted",
   combined |-> combined_score(url_result.score, m.result.score, v.result.score, p.result.score),
   log |-> <<<<"url", "call">>, <<"metadata", "call">>>> \o m.log
           \o (IF both THEN <<<<"visual", "call">>>> \o v.log ELSE <<>>)
           \o (IF both THEN <<<<"pixel", "call">>>> \o p.log ELSE <<>>),
   draws |-> p.draws]

short_circuit(url_result) ==
  [verdict |-> [is_ai_generated |-> TRUE,
                confidence_score |-> url_result.score,
                detection_method |-> <<url_result.method>>,
                details |-> [url_analysis |-> url_result.details,
                             confidence_level |-> "high",
                             primary_indicator |-> "AI service URL detected"]],
   path |-> "short_circuit", combined |-> url_result.score,
   log |-> <<<<"url", "call">>>>, draws |-> 0]

no_image ==
  [verdict |-> [is_ai_generated |-> FALSE,
                confidence_score |-> 0,
                detection_method |-> <<"no_image">>,
                details |-> [message |-> "No image URL provided"]],
   path |-> "no_image", combined |-> 0, log |-> <<>>, draws |-> 0]

\* a variant of after_url_check that runs the image extractors before it
\* looks at the URL score
after_url_check_eager(url_result, env, coin) ==
  IF url_result.detected /\ url_result.score >= Pts(80)
  THEN [short_circuit(url_result) EXCEPT
          !.log = <<<<"url", "call">>, <<"metadata", "call">>>>
                  \o analyze_image_metadata(env.isfile, env.res, env.net.metadata, env.crash).log]
  ELSE combine(url_result,
               analyze_image_metadata(env.isfile, env.res, env.net.metadata, env.crash),
               IF flags.PIL /\ flags.NUMPY
               THEN analyze_visual_patterns(env.isfile, env.res, env.net.visual, env.crash) ELSE no_result,
               IF flags.PIL /\ flags.NUMPY
               THEN analyze_pixel_level_features(env.isfile, env.res, env.net.pixel, coin, env.crash) ELSE no_result,
               flags.PIL /\ flags.NUMPY)

after_url_check(url_result, env, coin) ==
  IF url_result.detected /\ url_result.score >= Pts(80)
  THEN short_circuit(url_result)
  ELSE combine(url_result,
               analyze_image_metadata(env.isfile, env.res, env.net.metadata, env.crash),
               IF flags.PIL /\ flags.NUMPY
               THEN analyze_visual_patterns(env.isfile, env.res, env.net.visual, env.crash) ELSE no_result,
               IF flags.PIL /\ flags.NUMPY
               THEN analyze_pixel_level_features(env.isfile, env.res, env.net.pixel, coin, env.crash) ELSE no_result,
               flags.PIL /\ flags.NUMPY)

\* a variant of detect_ai_image without the guard of lines 926-932
detect_ai_image_unguarded(image_url, env, coin) ==
  after_url_check(url_check[image_url], env, coin)

\* The whole call.  env.isfile, env.res and env.net are what the reference
\* resolves to and what the network does for each extractor, env.crash the
\* exception an extractor meets on the way; coin is what
\* this call's random samplings give.  The result carries, beside the
\* verdict, the log of the extractor calls, fetches and decodes made, the
\* number of np.random calls, and the unrounded combined score.
detect_ai_image(image_url, env, coin) ==
  IF ~Truthy(image_url) THEN no_image ELSE after_url_check(url_check[image_url], env, coin)

------------------------------------------------------------------------------
(* sustainability_classifier.py *)

SUSTAINABLE_KEYWORDS == <<
  [category |-> "high_score", weight |-> 10, keywords |-> <<
        <<"h","a","n","d","m","a","d","e">>,
        <<"h","a","n","d","-","m","a","d","e">>,
        <<"h","a","n","d"," ","m","a","d","e">>,
        <<"o","r","g","a","n","i","c">>,
        <<"r","e","c","y","c","l","e","d">>,
        <<"u","p","c","y","c","l","e","d">>,
        <<"n","a","t","u","r","a","l">>,
        <<"e","c","o","-","f","r","i","e","n","d","l","y">>,
        <<"e","c","o"," ","f","r","i","e","n","d","l","y">>,
        <<"b","i","o","d","e","g","r","a","d","a","b","l","e">>,
        <<"s","u","s","t","a","i","n","a","b","l","e">>,
        <<"b","a","m","b","o","o">>,
        <<"j","u","t","e">>,
        <<"c","o","t","t","o","n">>,
        <<"c","l","a","y">>,
        <<"c","e","r","a","m","i","c">>,
        <<"p","o","t","t","e","r","y">>,
        <<"w","o","o","d">>,
        <<"w","o","o","d","e","n">>,
        <<"a","r","t","i","s","a","n">>,
        <<"h","e","r","i","t","a","g","e">>,
        <<"t","r","a","d","i","t","i","o","n","a","l">>,
        <<"h","a","n","d","c","r","a","f","t","e","d">>,
        <<"h","a","n","d","-","c","r","a","f","t","e","d">>,
        <<"e","c","o">>,
        <<"g","r","e","e","n">>,
        <<"e","a","r","t","h","-","f","r","i","e","n","d","l","y">>,
        <<"e","n","v","i","r","o","n","m","e","n","t","a","l","l","y"," ","f","r","i","e","n","d","l","y">> >>],
  [category |-> "medium_score", weight |-> 7, keywords |-> <<
        <<"r","e","u","s","a","b","l","e">>,
        <<"p","l","a","n","t","-","b","a","s","e","d">>,
        <<"n","o","n","-","t","o","x","i","c">>,
        <<"r","e","n","e","w","a","b","l","e">>,
        <<"e","t","h","i","c","a","l">>,
        <<"f","a","i","r","-","t","r","a","d","e">>,
        <<"f","a","i","r"," ","t","r","a","d","e">>,
        <<"l","o","c","a","l">>,
        <<"l","o","c","a","l","l","y"," ","m","a","d","e">>,
        <<"a","r","t","i","s","a","n","a","l">>,
        <<"c","r","a","f","t">>,
        <<"c","r","a","f","t","e","d">>,
        <<"h","o","m","e","m","a","d","e">>,
        <<"h","o","m","e","-","m","a","d","e">>,
        <<"n","a","t","u","r","a","l"," ","f","i","b","e","r">>,
        <<"n","a","t","u","r","a","l"," ","f","i","b","r","e">>,
        <<"b","i","o","d","e","g","r","a","d","a","b","l","e">>,
        <<"c","o","m","p","o","s","t","a","b","l","e">>,
        <<"v","i","n","t","a","g","e">>,
        <<"r","e","p","u","r","p","o","s","e","d">>,
        <<"r","e","c","l","a","i","m","e","d">>,
        <<"s","a","l","v","a","g","e","d">> >>],
  [category |-> "low_score", weight |-> 4, keywords |-> <<
        <<"h","a","n","d","w","o","v","e","n">>,
        <<"h","a","n","d","-","w","o","v","e","n">>,
        <<"h","a","n","d"," ","w","o","v","e","n">>,
        <<"t","e","x","t","i","l","e">>,
        <<"f","a","b","r","i","c">>,
        <<"m","e","t","a","l">>,
        <<"b","r","a","s","s">>,
        <<"c","o","p","p","e","r">>,
        <<"b","r","o","n","z","e">>,
        <<"t","e","r","r","a","c","o","t","t","a">>,
        <<"t","e","r","r","a","-","c","o","t","t","a">>,
        <<"s","t","o","n","e">>,
        <<"m","a","r","b","l","e">>,
        <<"l","e","a","t","h","e","r">>,
        <<"s","i","l","k">>,
        <<"w","o","o","l">>,
        <<"l","i","n","e","n">> >>],
  [category |-> "negative", weight |-> -8, keywords |-> <<
        <<"p","l","a","s","t","i","c">>,
        <<"s","y","n","t","h","e","t","i","c">>,
        <<"c","h","e","m","i","c","a","l">>,
        <<"m","a","s","s","-","p","r","o","d","u","c","e","d">>,
        <<"f","a","c","t","o","r","y","-","m","a","d","e">>,
        <<"p","o","l","y","e","s","t","e","r">>,
        <<"a","c","r","y","l","i","c">>,
        <<"n","y","l","o","n">>,
        <<"a","r","t","i","f","i","c","i","a","l">> >>] >>

\* how many times the keyword stands in the text
Occurrences(text, keyword) ==
  Cardinality({i \in 1..(Len(text) - Len(keyword) + 1) :
                 \A j \in 1..Len(keyword) : text[i + j - 1] = keyword[j]})

\* a variant of keyword_hits that meets a keyword once per occurrence
keyword_hits_per_occurrence(text) ==
  LET text_lower == Lower(text)
      RECURSIVE Rep(_, _)
      Rep(h, n) == IF n = 0 THEN <<>> ELSE <<h>> \o Rep(h, n - 1)
      Found(c) ==
        LET ks == SUSTAINABLE_KEYWORDS[c].keywords
            RECURSIVE Go(_)
            Go(i) ==
              IF i = 0 THEN <<>>
              ELSE Go(i - 1) \o Rep([category |-> SUSTAINABLE_KEYWORDS[c].category,
                                     weight |-> SUSTAINABLE_KEYWORDS[c].weight,
                                     keyword |-> ks[i]],
                                    Occurrences(text_lower, ks[i]))
        IN  Go(Len(ks))
  IN  Found(1) \o Found(2) \o Found(3) \o Found(4)

\* a variant of keyword_hits that loses the sign of the weights
keyword_hits_unsigned(text) ==
  LET text_lower == Lower(text)
      Found(c) ==
        LET Hit(k) == Contains(text_lower, k)
            kws == SelectSeq(SUSTAINABLE_KEYWORDS[c].keywords, Hit)
        IN  [i \in 1..Len(kws) |->
               [category |-> SUSTAINABLE_KEYWORDS[c].category,
                weight |-> IF SUSTAINABLE_KEYWORDS[c].weight < 0
                           THEN 0 - SUSTAINABLE_KEYWORDS[c].weight
                           ELSE SUSTAINABLE_KEYWORDS[c].weight,
                keyword |-> kws[i]]]
  IN  Found(1) \o Found(2) \o Found(3) \o Found(4)

\* the keywords `keyword in text_lower` finds, in the order the two loops
\* meet them, each with its category and weight
keyword_hits(text) ==
  LET text_lower == Lower(text)
      Found(c) ==
        LET Hit(k) == Contains(text_lower, k)
            kws == SelectSeq(SUSTAINABLE_KEYWORDS[c].keywords, Hit)
        IN  [i \in 1..Len(kws) |->
               [category |-> SUSTAINABLE_KEYWORDS[c].category,
                weight |-> SUSTAINABLE_KEYWORDS[c].weight,
                keyword |-> kws[i]]]
  IN  Found(1) \o Found(2) \o Found(3) \o Found(4)

\* the product texts the calls are drawn from
T_basket == <<"H","a","n","d","m","a","d","e"," ","B","a","m","b","o","o"," ","B","a","s","k","e","t">>

T_mug == <<"C","e","r","a","m","i","c"," ","C","o","f","f","e","e"," ","M","u","g">>

T_box == <<"P","l","a","s","t","i","c"," ","S","t","o","r","a","g","e"," ","B","o","x">>

T_scarf == <<"S","i","l","k"," ","S","c","a","r","f">>

D_basket == <<"E","c","o","-","f","r","i","e","n","d","l","y"," ","h","a","n","d","w","o","v","e","n"," ","b","a","m","b","o","o"," ","b","a","s","k","e","t"," ","m","a","d","e"," ","b","y"," ","l","o","c","a","l"," ","a","r","t","i","s","a","n","s"," ","u","s","i","n","g"," ","t","r","a","d","i","t","i","o","n","a","l"," ","m","e","t","h","o","d","s">>

D_mug == <<"H","a","n","d","-","t","h","r","o","w","n"," ","p","o","t","t","e","r","y"," ","m","u","g"," ","m","a","d","e"," ","f","r","o","m"," ","n","a","t","u","r","a","l"," ","c","l","a","y">>

D_box == <<"M","a","s","s","-","p","r","o","d","u","c","e","d"," ","s","y","n","t","h","e","t","i","c"," ","s","t","o","r","a","g","e"," ","c","o","n","t","a","i","n","e","r">>

D_bio == <<"b","i","o","d","e","g","r","a","d","a","b","l","e">>

D_wood == <<"w","o","o","d",","," ","w","o","o","d"," ","a","n","d"," ","W","O","O","D">>

D_nylon == <<"p","l","a","s","t","i","c"," ","s","y","n","t","h","e","t","i","c"," ","c","h","e","m","i","c","a","l"," ","p","o","l","y","e","s","t","e","r"," ","a","c","r","y","l","i","c"," ","n","y","l","o","n">>

D_rich == <<"h","a","n","d","m","a","d","e"," ","o","r","g","a","n","i","c"," ","r","e","c","y","c","l","e","d"," ","u","p","c","y","c","l","e","d"," ","n","a","t","u","r","a","l"," ","s","u","s","t","a","i","n","a","b","l","e"," ","b","a","m","b","o","o"," ","j","u","t","e"," ","c","o","t","t","o","n"," ","c","l","a","y"," ","w","o","o","d","e","n">>

Titles == {None, <<>>, T_basket, T_mug, T_box, T_scarf}

Descriptions == {None, <<>>, D_basket, D_mug, D_box, D_bio, D_wood, D_nylon, D_rich}

\* line 143: f"{title} {description}" if both are given, else the one that is
combined_text_of(title, description) ==
  IF Truthy(title) /\ Truthy(description) THEN title \o <<" ">> \o description
  ELSE IF Truthy(title) THEN title
  ELSE IF Truthy(description) THEN description
  ELSE <<>>

CombinedTexts == {combined_text_of(t, d) : t \in Titles, d \in Descriptions}

\* the texts the text extractor is handed
Texts == CombinedTexts \cup {None}

\* the keyword search is pure: its results on the texts the calls draw
text_hits == [t \in CombinedTexts |-> keyword_hits(t)]

\* list(set(xs)): the distinct elements, in the order the interpreter's
\* string hashing (seed) puts them
list_set(xs, seed) ==
  LET First(i) == \A j \in 1..(i - 1) : xs[j] # xs[i]
      idx == SelectSeq([i \in 1..Len(xs) |-> i], First)
      n == Len(idx)
  IN  [i \in 1..n |->
         xs[idx[IF seed = 0 THEN i
                ELSE IF seed = 1 THEN n + 1 - i
                ELSE ((i + seed - 2) % n) + 1]]]

\* a variant of normalized_text_score without the base score of 30
normalized_text_score_no_base(total_score) ==
  10 * RoundDiv(Min(30000, Max(0, 200 * total_score)), 3)

\* a variant of normalized_text_score that does not keep the score in 0..100
normalized_text_score_unclamped(total_score) ==
  10 * RoundDiv(200 * total_score + 9000, 3)

\* round(min(100, max(0, (total_score / 150) * 100 + 30)), 2)
normalized_text_score(total_score) ==
  10 * RoundDiv(Min(30000, Max(0, 200 * total_score + 9000)), 3)

\* a variant of reason_of that explains the low-weight materials as well
reason_of_any_weight(hit) ==
  IF hit.weight > 0
  THEN (IF hit.category = "high_score" THEN <<<<"strong sustainability indicator", hit.keyword>>>>
        ELSE <<<<"material/method", hit.keyword>>>>)
  ELSE <<<<"may not be sustainable", hit.keyword>>>>

\* the reason a found keyword adds, if any
reason_of(hit) ==
  IF hit.weight >= 7
  THEN (IF hit.category = "high_score" THEN <<<<"strong sustainability indicator", hit.keyword>>>>
        ELSE IF hit.category = "medium_score" THEN <<<<"material/method", hit.keyword>>>>
        ELSE <<>>)
  ELSE IF hit.weight < 0 THEN <<<<"may not be sustainable", hit.keyword>>>>
  ELSE <<>>

text_result_of(hits, seed) ==
  LET RECURSIVE Total(_)
      Total(i) == IF i = 0 THEN 0 ELSE Total(i - 1) + hits[i].weight
      RECURSIVE Reasons(_)
      Reasons(i) == IF i = 0 THEN <<>> ELSE Reasons(i - 1) \o reason_of(hits[i])
  IN  [score |-> normalized_text_score(Total(Len(hits))),
       keywords_found |-> list_set([i \in 1..Len(hits) |-> hits[i].keyword], seed),
       reasons |-> SubSeq(Reasons(Len(hits)), 1, Min(5, Len(Reasons(Len(hits)))))]

\* a variant of analyze_text_sustainability that scans empty text as any other
analyze_text_sustainability_unguarded(text) ==
  IF ~Truthy(text)
  THEN text_result_of(<<>>, hashseed)
  ELSE text_result_of(text_hits[text], hashseed)

analyze_text_sustainability(text) ==
  IF ~Truthy(text)
  THEN [score |-> 0, keywords_found |-> <<>>, reasons |-> <<>>]
  ELSE text_result_of(text_hits[text], hashseed)

\* a variant of analyze_image_sustainability that scores a given image
\* above the default base
analyze_image_sustainability_given(image_url) ==
  [score |-> Pts(60), confidence |-> 600, method |-> "heuristic_artisan_base"]

analyze_image_sustainability(image_url) ==
  [score |-> Pts(55), confidence |-> 600, method |-> "heuristic_artisan_base"]

\* a variant of final_score_of with the two weights exchanged
final_score_swapped(text_score, image_score) == (text_score * 3 + image_score * 7) \div 10

final_score_of(text_score, image_score) == (text_score * 7 + image_score * 3) \div 10

\* a variant of classification that returns every reason it has built
classification_uncapped(text_result, text_score, image_score, final_score) ==
  LET is_sustainable == final_score >= Pts(60)
      top_keywords == SubSeq(text_result.keywords_found, 1, Min(3, Len(text_result.keywords_found)))
  IN  [is_sustainable |-> is_sustainable,
       score |-> Round2(final_score),
       text_score |-> Round2(text_score),
       image_score |-> Round2(image_score),
       reasons |->
         (IF is_sustainable
          THEN <<<<"Classified as sustainable handcrafted product">>>>
               \o (IF text_result.keywords_found # <<>>
                   THEN <<<<"Sustainable materials/methods detected", top_keywords>>>> ELSE <<>>)
          ELSE <<<<"Product may not meet sustainability criteria">>>>)
         \o text_result.reasons
         \o (IF final_score >= Pts(50)
             THEN <<<<"Handcrafted artisan product from Clyst marketplace">>>> ELSE <<>>),
       keywords_found |-> SubSeq(text_result.keywords_found, 1, Min(10, Len(text_result.keywords_found)))]

\* lines 158-184: the decision, the reasons and the returned dictionary
classification(text_result, text_score, image_score, final_score) ==
  LET is_sustainable == final_score >= Pts(60)
      top_keywords == SubSeq(text_result.keywords_found, 1, Min(3, Len(text_result.keywords_found)))
      reasons ==
        (IF is_sustainable
         THEN <<<<"Classified as sustainable handcrafted product">>>>
              \o (IF text_result.keywords_found # <<>>
                  THEN <<<<"Sustainable materials/methods detected", top_keywords>>>> ELSE <<>>)
         ELSE <<<<"Product may not meet sustainability criteria">>>>)
        \o text_result.reasons
        \o (IF final_score >= Pts(50)
            THEN <<<<"Handcrafted artisan product from Clyst marketplace">>>> ELSE <<>>)
  IN  [is_sustainable |-> is_sustainable,
       score |-> Round2(final_score),
       text_score |-> Round2(text_score),
       image_score |-> Round2(image_score),
       reasons |-> SubSeq(reasons, 1, Min(6, Len(reasons))),
       keywords_found |-> SubSeq(text_result.keywords_found, 1, Min(10, Len(text_result.keywords_found)))]

scored_product(text_result, image_score) ==
  classification(text_result, text_result.score, image_score,
                 final_score_of(text_result.score, image_score))

classify_product_sustainability(title, description, image_url) ==
  scored_product(analyze_text_sustainability(combined_text_of(title, description)),
                 IF Truthy(image_url) THEN analyze_image_sustainability(image_url).score
                 ELSE Pts(55))

\* lines 186-220: the text of the badge a score is shown with
get_sustainability_badge_info(score) ==
  IF score >= Pts(80) THEN "Highly Sustainable"
  ELSE IF score >= Pts(60) THEN "Sustainable Product"
  ELSE IF score >= Pts(40) THEN "Eco-Conscious"
  ELSE ""

------------------------------------------------------------------------------
(* The inputs the calls are drawn from *)

\* states of the random generator that are told apart
RngStates == 2

\* of the three image extractors, how many may meet a failing request in one call
MaxFaults == 1

\* string-hash seeds an interpreter may start with that are told apart
HashSeeds == 2

\* the largest combined score, in points, the band computation is handed
MaxScore == 100

Extractors == {"metadata", "visual", "pixel"}

Libraries == [PIL : BOOLEAN, NUMPY : BOOLEAN, SCIPY : BOOLEAN, CV2 : BOOLEAN]

\* the file an image arrives in: format, EXIF and canvas
Containers ==
  [format : {"JPEG", "GIF"}, camera : BOOLEAN, ai_tool : BOOLEAN,
   size : { <<512, 512>>, <<768, 512>>, <<2048, 1536>> }]

\* all channel deviations below 30 put the mean variance below 900; left
\* and right are samples of the left half and of the flipped right half
Looks ==
  { [variance |-> "low",  color_std |-> "lt25", left |-> <<100, 102>>, right |-> <<100, 101>>],
    [variance |-> "low",  color_std |-> "lt25", left |-> <<100, 100>>, right |-> <<101, 101>>],
    [variance |-> "low",  color_std |-> "wide", left |-> <<100, 140>>, right |-> <<120, 100>>],
    [variance |-> "mid",  color_std |-> "lt30", left |-> <<100, 130>>, right |-> <<130, 100>>],
    [variance |-> "mid",  color_std |-> "wide", left |-> <<60, 180>>,  right |-> <<60, 178>>],
    [variance |-> "high", color_std |-> "wide", left |-> <<0, 255>>,   right |-> <<255, 0>>],
    [variance |-> "high", color_std |-> "wide", left |-> <<0, 2>>,     right |-> <<250, 252>>] }

PxPhoto ==
  [vov_low |-> FALSE, hf_low |-> FALSE, hf_std_low |-> FALSE, peaks |-> 0, zeros |-> 0,
   corr |-> "high", edges_sharp |-> FALSE, edges_flat |-> FALSE, edges_few |-> FALSE,
   focus |-> "normal", periodic |-> FALSE, energy |-> "normal", grid |-> FALSE,
   checker |-> FALSE, patch |-> "low", blob |-> FALSE, saturation |-> "normal"]

PxEdited ==
  [vov_low |-> TRUE, hf_low |-> FALSE, hf_std_low |-> TRUE, peaks |-> 1, zeros |-> 2,
   corr |-> "borderline", edges_sharp |-> FALSE, edges_flat |-> TRUE, edges_few |-> FALSE,
   focus |-> "blurred", periodic |-> FALSE, energy |-> "low", grid |-> TRUE,
   checker |-> FALSE, patch |-> "mixed", blob |-> TRUE, saturation |-> "low"]

PxSynthetic ==
  [vov_low |-> TRUE, hf_low |-> TRUE, hf_std_low |-> TRUE, peaks |-> 3, zeros |-> 3,
   corr |-> "low", edges_sharp |-> TRUE, edges_flat |-> TRUE, edges_few |-> TRUE,
   focus |-> "sharp", periodic |-> TRUE, energy |-> "high", grid |-> TRUE,
   checker |-> TRUE, patch |-> "high", blob |-> TRUE, saturation |-> "high"]

\* what the pixels show: the statistics the visual and the pixel analyses read
Contents == {[look |-> l, px |-> p] : l \in Looks, p \in {PxPhoto, PxEdited, PxSynthetic}}

Image(c, k) ==
  [format |-> c.format, camera |-> c.camera, ai_tool |-> c.ai_tool, size |-> c.size,
   variance |-> k.look.variance, color_std |-> k.look.color_std, left |-> k.look.left,
   right |-> k.look.right,
   px |-> k.px]

CameraPhoto == [format |-> "JPEG", camera |-> TRUE, ai_tool |-> FALSE, size |-> <<2048, 1536>>]

BareSquare == [format |-> "JPEG", camera |-> FALSE, ai_tool |-> FALSE, size |-> <<512, 512>>]

Natural ==
  [look |-> [variance |-> "mid", color_std |-> "wide", left |-> <<60, 180>>, right |-> <<180, 60>>],
   px |-> PxPhoto]

Rendered ==
  [look |-> [variance |-> "low", color_std |-> "lt25", left |-> <<100, 102>>, right |-> <<100, 101>>],
   px |-> PxSynthetic]

Blurred ==
  [look |-> [variance |-> "low", color_std |-> "lt25", left |-> <<100, 102>>, right |-> <<100, 101>>],
   px |-> PxEdited]

\* every container with the reference contents, every content in the
\* reference containers
Images ==
  {Image(c, k) : c \in Containers, k \in {Natural, Rendered}}
  \cup {Image(c, k) : c \in {CameraPhoto, BareSquare}, k \in Contents}

Img0 == Image(CameraPhoto, Natural)

\* what a reference can resolve to: any image when the bytes are sound; with
\* bytes no decoder accepts the features are never read; with truncated
\* bytes only the header is
Resources ==
  {[body |-> "ok", img |-> i] : i \in Images}
  \cup {[body |-> "garbage", img |-> Img0]}
  \cup {[body |-> "truncated", img |-> Image(c, Natural)] : c \in {CameraPhoto, BareSquare}}

LocalFiles ==
  {[body |-> "ok", img |-> Image(c, k)] : c \in {CameraPhoto, BareSquare}, k \in {Natural, Blurred}}
  \cup {[body |-> "garbage", img |-> Img0]}

AllOk == [x \in Extractors |-> "ok"]

Nets ==
  {n \in [Extractors -> {"ok", "http_error", "exception"}] :
     Cardinality({x \in Extractors : n[x] # "ok"}) <= MaxFaults}

\* the points at which an extractor may meet an exception of its own
Crashes ==
  {[x |-> "metadata", after |-> k] : k \in 0..(MetadataSteps - 1)}
  \cup {[x |-> "visual", after |-> k] : k \in 0..(VisualSteps - 1)}
  \cup {[x |-> "pixel", after |-> k] : k \in {0, PixelSteps}}

Env0 == [isfile |-> FALSE, res |-> [body |-> "ok", img |-> Img0], net |-> AllOk, crash |-> NoCrash]

\* the environments that make a difference to a call with this reference
Envs(image_url) ==
  IF ~Truthy(image_url) \/ url_check[image_url].detected
  THEN {Env0}
  ELSE {[isfile |-> FALSE, res |-> r, net |-> n, crash |-> NoCrash] : r \in Resources, n \in Nets}
       \cup {[isfile |-> FALSE, res |-> [body |-> "ok", img |-> Image(c, Rendered)],
              net |-> AllOk, crash |-> c2] : c \in Containers, c2 \in Crashes}
       \cup (IF image_url \in LocalPaths
             THEN {[isfile |-> TRUE, res |-> r, net |-> AllOk, crash |-> NoCrash] : r \in LocalFiles}
             ELSE {})

Coins(img) ==
  {[corr |-> c, patch |-> p] :
     c \in (IF img.px.corr = "borderline" THEN BOOLEAN ELSE {FALSE}),
     p \in (IF img.px.patch = "mixed" THEN BOOLEAN ELSE {FALSE})}

------------------------------------------------------------------------------
(* The library as a state machine: the interpreter imports the detector,   *)
(* callers call the two entry points one call at a time and take the       *)
(* result.                                                                 *)

NoCall == [fn |-> "none"]

Detected(image_url, env, coin) ==
  LET r == detect_ai_image(image_url, env, coin)
  IN  [fn |-> "detect_ai_image",
       input |-> [image_url |-> image_url, env |-> env],
       verdict |-> r.verdict, path |-> r.path, combined |-> r.combined,
       log |-> r.log, draws |-> r.draws]

Classified(title, description, image_url) ==
  [fn |-> "classify_product_sustainability",
   input |-> [title |-> title, description |-> description, image_url |-> image_url],
   verdict |-> classify_product_sustainability(title, description, image_url)]

\* import ai_image_detector: the try/except ImportError blocks set the
\* flags; the annotation np.ndarray of analyze_noise_patterns is evaluated
\* when the def statement runs, unless the interpreter defers annotations
ImportDetector ==
  /\ module = "unloaded"
  /\ flags' = installed
  /\ \E deferred \in BOOLEAN :
       module' = IF ~installed.NUMPY /\ ~deferred THEN "import_error" ELSE "loaded"
  /\ UNCHANGED <<installed, rng, hashseed, call>>

DetectAiImage ==
  /\ module = "loaded"
  /\ call.fn = "none"
  /\ \E image_url \in ImageUrls : \E env \in Envs(image_url) : \E coin \in Coins(env.res.img) :
       /\ call' = Detected(image_url, env, coin)
       /\ rng' = (rng + call'.draws) % RngStates
  /\ UNCHANGED <<installed, module, flags, hashseed>>

\* the caller calls again with the same reference, the resource and the
\* network being as they were
DetectAgain ==
  /\ module = "loaded"
  /\ call.fn = "detect_ai_image"
  /\ \E coin \in Coins(call.input.env.res.img) :
       /\ call' = Detected(call.input.image_url, call.input.env, coin)
       /\ rng' = (rng + call'.draws) % RngStates
  /\ UNCHANGED <<installed, module, flags, hashseed>>

\* the image references a product comes with
ProductImages == {None, <<>>, U_shop, U_openai}

ClassifyProductSustainability ==
  /\ call.fn = "none"
  /\ \E title \in Titles : \E description \in Descriptions : \E image_url \in ProductImages :
       call' = Classified(title, description, image_url)
  /\ UNCHANGED <<installed, module, flags, rng, hashseed>>

\* the caller classifies the same product again
ClassifyAgain ==
  /\ call.fn = "classify_product_sustainability"
  /\ call' = Classified(call.input.title, call.input.description, call.input.image_url)
  /\ UNCHANGED <<installed, module, flags, rng, hashseed>>

\* a caller uses the text extractor on its own
AnalyzeTextSustainability ==
  /\ call.fn = "none"
  /\ \E text \in Texts :
       call' = [fn |-> "analyze_text_sustainability",
                input |-> [text |-> text],
                verdict |-> analyze_text_sustainability(text)]
  /\ UNCHANGED <<installed, module, flags, rng, hashseed>>

\* the caller takes the result
Return ==
  /\ call.fn # "none"
  /\ call' = NoCall
  /\ UNCHANGED <<installed, module, flags, rng, hashseed>>

Init ==
  /\ installed \in Libraries
  /\ module = "unloaded"
  /\ flags = [PIL |-> FALSE, NUMPY |-> FALSE, SCIPY |-> FALSE, CV2 |-> FALSE]
  /\ rng = 0
  /\ hashseed \in 0..(HashSeeds - 1)
  /\ call = NoCall

Next ==
  \/ ImportDetector
  \/ DetectAiImage
  \/ DetectAgain
  \/ ClassifyProductSustainability
  \/ ClassifyAgain
  \/ AnalyzeTextSustainability
  \/ Return

Spec == Init /\ [][Next]_vars

------------------------------------------------------------------------------
(* The band computation of detect_ai_image (lines 998-1008) on its own:    *)
(* handed any combined score from 0.00 to MaxScore, in hundredths.         *)

Scores == {k * 10 : k \in 0..(MaxScore * 100)}

ConfidenceLevel ==
  /\ call.fn = "none"
  /\ \E combined \in Scores :
       call' = [fn |-> "confidence_level", input |-> [combined |-> combined],
                verdict |-> confidence_level(combined)]
  /\ UNCHANGED <<installed, module, flags, rng, hashseed>>

NextBands == ConfidenceLevel \/ Return

SpecBands == Init /\ [][NextBands]_vars

------------------------------------------------------------------------------
(* The scoring of classify_product_sustainability (lines 83-92, 155-184)   *)
(* on its own: handed any total the keyword tables can add up to.          *)

\* every negative keyword found and no other
MinTotal == Len(SUSTAINABLE_KEYWORDS[4].keywords) * SUSTAINABLE_KEYWORDS[4].weight

\* every keyword of the three positive categories found
MaxTotal ==
  Len(SUSTAINABLE_KEYWORDS[1].keywords) * SUSTAINABLE_KEYWORDS[1].weight
  + Len(SUSTAINABLE_KEYWORDS[2].keywords) * SUSTAINABLE_KEYWORDS[2].weight
  + Len(SUSTAINABLE_KEYWORDS[3].keywords) * SUSTAINABLE_KEYWORDS[3].weight

\* a product whose text adds up to total_score is scored, with or without
\* an image reference
ScoreTotal ==
  /\ call.fn = "none"
  /\ \E total_score \in MinTotal..MaxTotal : \E image_url \in ProductImages :
       call' = [fn |-> "score_total",
                input |-> [total_score |-> total_score, image_url |-> image_url],
                verdict |-> scored_product(
                              [score |-> normalized_text_score(total_score),
                               keywords_found |-> <<>>, reasons |-> <<>>],
                              IF Truthy(image_url) THEN analyze_image_sustainability(image_url).score
                              ELSE Pts(55))]
  /\ UNCHANGED <<installed, module, flags, rng, hashseed>>

NextTotals == ScoreTotal \/ ClassifyProductSustainability \/ Return

SpecTotals == Init /\ [][NextTotals]_vars
------------------------------------------------------------------------------
(* Properties *)

DetectCall == call.fn = "detect_ai_image"

ClassifyCall == call.fn = "classify_product_sustainability"

\* the call in hand took the weighted path: a reference was given and the
\* URL check did not short-circuit
WeightedCall ==
  /\ DetectCall
  /\ call.input.image_url \notin {None, <<>>}
  /\ ~(url_check[call.input.image_url].detected
       /\ url_check[call.input.image_url].score >= Pts(80))

\* how often the pair <<x, what>> stands in a log
Count(log, x, what) == Cardinality({i \in 1..Len(log) : log[i] = <<x, what>>})

Fetches(log) == Cardinality({i \in 1..Len(log) : log[i][2] = "fetch"})

\* the references of ImageUrls that match an AI-service domain pattern
service_url ==
  [u \in ImageUrls |-> Truthy(u) /\ Hits(AI_SERVICE_PATTERNS, Lower(u)) # <<>>]

\* C1: when detect_ai_image is called with a non-empty reference and the URL
\* short-circuit does not trigger, the returned confidence_score is
\* 0.25*url_score + 0.20*metadata_score + 0.15*visual_score + 0.40*pixel_score
\* of the sub-scores the four extractors returned, to the nearest hundredth.
\* (The sum below is in 1/100000 of a point, the score in 1/1000.)
C1_WeightedFormula ==
  WeightedCall =>
    LET d == call.verdict.details
        sum == d.url_score * 25 + d.metadata_score * 20 + d.visual_score * 15 + d.pixel_score * 40
        score == call.verdict.confidence_score
    IN  /\ score % 10 = 0
        /\ score * 100 - sum <= 500
        /\ sum - score * 100 <= 500

\* a weighted verdict to which metadata, visual and pixel analysis all
\* contribute and whose score is no whole number of points
C1_Witness ==
  /\ WeightedCall
  /\ call.verdict.details.metadata_score > 0
  /\ call.verdict.details.visual_score > 0
  /\ call.verdict.details.pixel_score > 0
  /\ call.verdict.confidence_score % 1000 # 0

\* C2: in every verdict of detect_ai_image (no image, URL short-circuit,
\* weighted combination) is_ai_generated is true exactly when the combined
\* score is at least 40.0, and exactly when the reported, rounded
\* confidence_score is at least 40.0.
C2_ThresholdAgrees ==
  DetectCall =>
    /\ call.verdict.is_ai_generated <=> (call.combined >= Pts(40))
    /\ call.verdict.is_ai_generated <=> (call.verdict.confidence_score >= Pts(40))

\* a weighted verdict whose combined score is 40.0 exactly
C2_Witness ==
  /\ WeightedCall
  /\ call.combined = Pts(40)
  /\ call.verdict.is_ai_generated

\* C3: the confidence band has inclusive lower bounds: a combined score of
\* at least 70 is "high", from 50 up to but not 70 "medium", from 30 up to
\* but not 50 "low", below 30 "unlikely".
C3_Bands ==
  call.fn = "confidence_level" =>
    LET s == call.input.combined
    IN  /\ s >= Pts(70) => call.verdict = "high"
        /\ (Pts(50) <= s /\ s < Pts(70)) => call.verdict = "medium"
        /\ (Pts(30) <= s /\ s < Pts(50)) => call.verdict = "low"
        /\ s < Pts(30) => call.verdict = "unlikely"

\* the band of 70.00 is computed, and it is "high"
C3_Witness ==
  /\ call.fn = "confidence_level"
  /\ call.input.combined = Pts(70)
  /\ call.verdict = "high"

\* C4: for a reference that matches at least one AI-service domain pattern,
\* check_url_patterns scores at least 80, and detect_ai_image returns
\* is_ai_generated true with detection_method 'url_pattern_analysis' and
\* details that hold url_analysis and no metadata, visual or pixel key.
C4_ServiceUrlShortCircuits ==
  (DetectCall /\ service_url[call.input.image_url]) =>
    /\ url_check[call.input.image_url].score >= Pts(80)
    /\ call.verdict.is_ai_generated
    /\ call.verdict.detection_method = <<"url_pattern_analysis">>
    /\ "url_analysis" \in DOMAIN call.verdict.details
    /\ DOMAIN call.verdict.details \cap
         {"metadata_analysis", "visual_analysis", "pixel_analysis", "metadata_score",
          "visual_score", "pixel_score", "pixel_analysis_breakdown", "analysis_summary"} = {}

\* the verdict on openai.com/i.png, which matches one service pattern
C4_Witness ==
  /\ DetectCall
  /\ call.input.image_url = U_openai
  /\ Len(call.verdict.details.url_analysis) = 1
  /\ call.verdict.confidence_score = Pts(80)

\* C5: for an empty or None reference detect_ai_image returns
\* is_ai_generated false, confidence_score 0.0 and detection_method
\* 'no_image', and invokes no extractor: no URL match, fetch or decode.
C5_NoImage ==
  (DetectCall /\ call.input.image_url \in {None, <<>>}) =>
    /\ call.verdict.is_ai_generated = FALSE
    /\ call.verdict.confidence_score = 0
    /\ call.verdict.detection_method = <<"no_image">>
    /\ call.log = <<>>
    /\ call.draws = 0

\* the verdict on the empty string
C5_Witness ==
  /\ DetectCall
  /\ call.input.image_url = <<>>
  /\ call.verdict.detection_method = <<"no_image">>

\* extractor x gets as far as acquiring the image
Attempts(x) == flags.PIL /\ (x = "metadata" \/ flags.NUMPY)

\* the acquisition of extractor x fails in this environment: the request
\* raises or is answered with another status than 200, or the bytes do not
\* decode (for the metadata extractor, which reads the header only, when
\* Image.open rejects them)
Fails(x, env) ==
  /\ Attempts(x)
  /\ \/ ~env.isfile /\ env.net[x] # "ok"
     \/ env.res.body = "garbage"
     \/ x # "metadata" /\ env.res.body = "truncated"

ScoreOf(x) ==
  IF x = "metadata" THEN call.verdict.details.metadata_score
  ELSE IF x = "visual" THEN call.verdict.details.visual_score
  ELSE call.verdict.details.pixel_score

NoteOf(x) ==
  IF x = "metadata" THEN call.verdict.details.metadata_analysis
  ELSE IF x = "visual" THEN call.verdict.details.visual_analysis
  ELSE call.verdict.details.pixel_analysis

\* C6: detect_ai_image returns a verdict when an extractor's fetch fails
\* (exception, timeout, non-200) or the bytes cannot be decoded: that
\* extractor contributes score 0 with a detail note, and every other
\* extractor is still called and, where its own acquisition does not fail,
\* still opens the image.
C6_FailSoft ==
  WeightedCall =>
    /\ call.verdict.is_ai_generated \in BOOLEAN
    /\ \A x \in Extractors :
         Fails(x, call.input.env) =>
           /\ ScoreOf(x) = 0
           /\ NoteOf(x) # <<>>
           /\ \A y \in Extractors \ {x} :
                Attempts(y) =>
                  /\ Count(call.log, y, "call") = 1
                  /\ ~Fails(y, call.input.env) => Count(call.log, y, "open") = 1

\* the visual extractor's request raised; metadata and pixel analysis scored
C6_Witness ==
  /\ WeightedCall
  /\ call.input.env.net.visual = "exception"
  /\ call.verdict.details.visual_score = 0
  /\ call.verdict.details.visual_analysis = <<"Visual analysis failed">>
  /\ call.verdict.details.metadata_score > 0
  /\ call.verdict.details.pixel_score > 0

\* C7: during one call of detect_ai_image at most one network fetch of the
\* image is made in total across all extractors.
C7_AtMostOneFetch == DetectCall => Fetches(call.log) <= 1

\* C8: calling detect_ai_image, or classify_product_sustainability, again
\* with identical input and the remote resource unchanged gives the same
\* scores and verdict.
C8_Idempotent ==
  [][(call.fn \in {"detect_ai_image", "classify_product_sustainability"}
      /\ call'.fn = call.fn
      /\ call'.input = call.input)
     => call'.verdict = call.verdict]_vars

\* C9: with the numeric or image library not installed the detector still
\* imports, analyze_visual_patterns and analyze_pixel_level_features return
\* score 0 with a 'not available' note, and detect_ai_image returns a verdict
\* whose combined score is exactly 0.25*url_score + 0.20*metadata_score.
C9_GracefulDegradation ==
  (module # "unloaded" /\ (~installed.PIL \/ ~installed.NUMPY)) =>
    /\ module = "loaded"
    /\ analyze_visual_patterns(FALSE, Env0.res, "ok", NoCrash).result.score = 0
    /\ analyze_visual_patterns(FALSE, Env0.res, "ok", NoCrash).result.details
         = <<"PIL or NumPy not available - visual analysis skipped">>
    /\ analyze_pixel_level_features(FALSE, Env0.res, "ok", [corr |-> FALSE, patch |-> FALSE], NoCrash).result.score = 0
    /\ analyze_pixel_level_features(FALSE, Env0.res, "ok", [corr |-> FALSE, patch |-> FALSE], NoCrash).result.details
         = <<"PIL or NumPy not available - pixel analysis skipped">>
    /\ WeightedCall =>
         call.combined * 100
           = call.verdict.details.url_score * 25 + call.verdict.details.metadata_score * 20

\* C10: classify_product_sustainability computes final = 0.7*text_score +
\* 0.3*image_score, text_score being the text extractor's score on the
\* combined title and description, and returns is_sustainable true exactly
\* when final >= 60.0.  (The reported score is final to the nearest
\* hundredth.)
C10_FinalScore ==
  ClassifyCall =>
    LET v == call.verdict
        final10 == v.text_score * 7 + v.image_score * 3
    IN  /\ v.text_score
             = analyze_text_sustainability(
                 combined_text_of(call.input.title, call.input.description)).score
        /\ v.score * 10 - final10 <= 50
        /\ final10 - v.score * 10 <= 50
        /\ v.is_sustainable <=> (final10 >= 10 * Pts(60))

\* the bamboo basket: text 77.33, image 55.0, final 70.63, sustainable
C10_Witness ==
  /\ ClassifyCall
  /\ call.input.title = T_basket
  /\ call.input.description = D_basket
  /\ call.verdict.text_score = 77330
  /\ call.verdict.score = 70630
  /\ call.verdict.is_sustainable

\* the sum of the weights of a sequence of keyword hits
RECURSIVE WeightSum(_)
WeightSum(hits) ==
  IF hits = <<>> THEN 0 ELSE hits[1].weight + WeightSum(Tail(hits))

\* C11: the title 'Handmade Bamboo Basket' with the description 'Eco-friendly
\* handwoven bamboo basket made by local artisans using traditional methods'
\* is classified is_sustainable = true with a final score of at least 60.
C11_BambooBasket ==
  (ClassifyCall /\ call.input.title = T_basket /\ call.input.description = D_basket) =>
    /\ call.verdict.is_sustainable
    /\ call.verdict.score >= Pts(60)

\* the basket classified without an image reference: eight keywords found
C11_Witness ==
  /\ ClassifyCall
  /\ call.input.title = T_basket
  /\ call.input.description = D_basket
  /\ call.input.image_url = None
  /\ Len(call.verdict.keywords_found) = 8
  /\ call.verdict.is_sustainable

\* C12: the title 'Plastic Storage Box' with the description 'Mass-produced
\* synthetic storage container' gets a final score strictly below that of
\* the bamboo basket and is_sustainable = false; the weights of its keyword
\* matches sum to less than 0, so its text score lies below the base of 30.
C12_PlasticBox ==
  (ClassifyCall /\ call.input.title = T_box /\ call.input.description = D_box) =>
    /\ ~call.verdict.is_sustainable
    /\ call.verdict.score
         < classify_product_sustainability(T_basket, D_basket, call.input.image_url).score
    /\ WeightSum(text_hits[combined_text_of(T_box, D_box)]) < 0
    /\ call.verdict.text_score < Pts(30)

\* the box: plastic, synthetic and mass-produced found, text 14.0, final 26.3
C12_Witness ==
  /\ ClassifyCall
  /\ call.input.title = T_box
  /\ call.input.description = D_box
  /\ Len(call.verdict.keywords_found) = 3
  /\ call.verdict.text_score = 14000
  /\ call.verdict.score = 26300

AnalyzeTextCall == call.fn = "analyze_text_sustainability"

\* the weights of the keyword-table entries found in the text, each entry
\* counted once / once per occurrence
EntryTotal(text, per_occurrence) ==
  LET text_lower == Lower(text)
      RECURSIVE Keys(_, _)
      Keys(c, i) ==
        IF i = 0 THEN 0
        ELSE Keys(c, i - 1)
             + SUSTAINABLE_KEYWORDS[c].weight
               * (IF per_occurrence
                  THEN Occurrences(text_lower, SUSTAINABLE_KEYWORDS[c].keywords[i])
                  ELSE IF Contains(text_lower, SUSTAINABLE_KEYWORDS[c].keywords[i]) THEN 1 ELSE 0)
      RECURSIVE Cats(_)
      Cats(c) == IF c = 0 THEN 0
                 ELSE Cats(c - 1) + Keys(c, Len(SUSTAINABLE_KEYWORDS[c].keywords))
  IN  Cats(Len(SUSTAINABLE_KEYWORDS))

entry_total == [t \in CombinedTexts |-> EntryTotal(t, FALSE)]

occurrence_total == [t \in CombinedTexts |-> EntryTotal(t, TRUE)]

NoRepeats(xs) == \A i, j \in 1..Len(xs) : xs[i] = xs[j] => i = j

\* C13, as stated: a keyword met several times is listed once in
\* keywords_found and its weight is added to total_score once per occurrence
\* before normalization.
C13_PerOccurrence ==
  (AnalyzeTextCall /\ Truthy(call.input.text)) =>
    /\ NoRepeats(call.verdict.keywords_found)
    /\ call.verdict.score = 10 * RoundDiv(Min(30000, Max(0, 200 * occurrence_total[call.input.text] + 9000)), 3)

\* C13, amended: a keyword met several times is listed once in
\* keywords_found, and total_score holds the weight of every keyword-table
\* entry found in the text once, however often the keyword occurs.
C13_PerEntry ==
  (AnalyzeTextCall /\ Truthy(call.input.text)) =>
    /\ NoRepeats(call.verdict.keywords_found)
    /\ call.verdict.score = 10 * RoundDiv(Min(30000, Max(0, 200 * entry_total[call.input.text] + 9000)), 3)

\* 'wood, wood and WOOD': wood listed once, 10 points once, score 36.67
C13_Witness ==
  /\ AnalyzeTextCall
  /\ call.input.text = D_wood
  /\ call.verdict.keywords_found = << <<"w","o","o","d">> >>
  /\ call.verdict.score = 36670

\* C14: the sustainability image score is 55.0 whether or not an image
\* reference is given and whatever it is, so for a fixed title and
\* description classify_product_sustainability returns for every image
\* reference what it returns for None.
C14_ImageScoreConstant ==
  ClassifyCall =>
    /\ call.verdict.image_score = Pts(55)
    /\ call.verdict
         = classify_product_sustainability(call.input.title, call.input.description, None)

\* the mug classified with the reference openai.com/i.png
C14_Witness ==
  /\ ClassifyCall
  /\ call.input.title = T_mug
  /\ call.input.description = D_mug
  /\ call.input.image_url = U_openai
  /\ call.verdict.image_score = Pts(55)

\* C15: no invocation of a classifier reads or writes process-wide mutable
\* state (the tables, the pattern lists, a global random generator), so its
\* result is the same under every interleaving with other invocations: a
\* step that starts an invocation leaves the state of the process as it was.
C15_NoSharedState ==
  [][call' # call => (rng' = rng /\ hashseed' = hashseed /\ flags' = flags)]_vars

\* C16: every verdict of detect_ai_image, on the no-image, the short-circuit
\* and the weighted path, carries a confidence band that is one of high,
\* medium, low, unlikely.
C16_BandOnEveryPath ==
  DetectCall =>
    /\ "confidence_level" \in DOMAIN call.verdict.details
    /\ call.verdict.details.confidence_level \in {"high", "medium", "low", "unlikely"}

\* C17: the URL extractor runs before any other extractor, and when its
\* score is at least 80 the call returns at once: the metadata, visual and
\* pixel extractors are not started, nothing is fetched or decoded, no
\* random number drawn.
C17_UrlFirst ==
  (DetectCall /\ call.log # <<>>) =>
    /\ call.log[1] = <<"url", "call">>
    /\ \A i \in 2..Len(call.log) : call.log[i][1] # "url"
    /\ url_check[call.input.image_url].score >= Pts(80) =>
         (call.log = <<<<"url", "call">>>> /\ call.draws = 0)

\* CDN.OPENAI.COM/I.PNG: two service patterns, score 95, only the URL check ran
C17_Witness ==
  /\ DetectCall
  /\ call.input.image_url = U_cdn
  /\ call.verdict.confidence_score = Pts(95)
  /\ call.log = <<<<"url", "call">>>>

\* C18: an exception raised inside one extractor at any point of its run,
\* also after it has accumulated a score, is caught inside that extractor:
\* the extractor contributes score 0, and the remaining extractors still run.
C18_CrashContained ==
  (WeightedCall /\ call.input.env.crash # NoCrash /\ Attempts(call.input.env.crash.x)) =>
    /\ ScoreOf(call.input.env.crash.x) = 0
    /\ \A y \in Extractors \ {call.input.env.crash.x} :
         Attempts(y) => Count(call.log, y, "call") = 1

Abs(n) == IF n < 0 THEN -n ELSE n

\* the mean of the absolute differences of the samples, as integers, is
\* below limit
true_difference_below(left, right, limit) ==
  SumSeq([i \in 1..Len(left) |-> Abs(left[i] - right[i])]) < limit * Len(left)

\* the visual extractor of the call in hand went through all of its steps
\* on a square image of even width
VisualOnSquare ==
  /\ WeightedCall
  /\ Attempts("visual")
  /\ ~Fails("visual", call.input.env)
  /\ call.input.env.crash.x # "visual"
  /\ call.input.env.res.img.size[1] = call.input.env.res.img.size[2]
  /\ call.input.env.res.img.size[1] % 2 = 0

\* C20: for a square RGB image of even width the visual extractor adds the
\* +25 symmetry penalty exactly when the mean of the true absolute
\* differences between the left half and the mirrored right half is below
\* 10, whatever 8-bit wrap-around does.
C20_SymmetryTrueDifference ==
  VisualOnSquare =>
    ((\E i \in 1..Len(call.verdict.details.visual_analysis) :
        call.verdict.details.visual_analysis[i] = "Image shows unusual perfect symmetry")
     <=> true_difference_below(call.input.env.res.img.left, call.input.env.res.img.right, 10))

ContextLine == <<"Handcrafted artisan product from Clyst marketplace">>

HasContextLine(reasons) == \E i \in 1..Len(reasons) : reasons[i] = ContextLine

\* the reasons the text extractor gave for the product of the call in hand
KeywordReasons ==
  analyze_text_sustainability(
    combined_text_of(call.input.title, call.input.description)).reasons

\* the summary lines classify_product_sustainability puts in front
SummaryLines ==
  IF call.verdict.is_sustainable /\ call.verdict.keywords_found # <<>> THEN 2 ELSE 1

\* final >= 50, on the returned scores
FinalAtLeast50 == call.verdict.text_score * 7 + call.verdict.image_score * 3 >= 10 * Pts(50)

\* C19 as stated: whenever the final score is at least 50 the returned
\* reasons (at most 6, summary line first) contain the marketplace-context
\* line, whatever the number of keyword reasons and whether sustainable or
\* not; keywords_found has at most 10 entries.
C19_ContextAlways ==
  ClassifyCall =>
    /\ Len(call.verdict.reasons) <= 6
    /\ Len(call.verdict.keywords_found) <= 10
    /\ FinalAtLeast50 => HasContextLine(call.verdict.reasons)

\* C19, amended: the context line is appended when the final score is at
\* least 50 and the list is then cut to its first 6 entries, so the
\* returned reasons (summary line first) contain the context line exactly
\* when final >= 50 and summary lines and keyword reasons number at most 5;
\* keywords_found has at most 10 entries.
C19_ContextWithinCap ==
  ClassifyCall =>
    /\ Len(call.verdict.reasons) <= 6
    /\ Len(call.verdict.keywords_found) <= 10
    /\ call.verdict.reasons[1]
         = (IF call.verdict.is_sustainable
            THEN <<"Classified as sustainable handcrafted product">>
            ELSE <<"Product may not meet sustainability criteria">>)
    /\ HasContextLine(call.verdict.reasons)
         <=> (FinalAtLeast50 /\ SummaryLines + Len(KeywordReasons) <= 5)

\* the bamboo basket: final 70.63, two summary lines and four or more
\* keyword reasons fill the six places, the context line is cut off
C19_Witness ==
  /\ ClassifyCall
  /\ call.input.title = T_basket
  /\ call.input.description = D_basket
  /\ call.verdict.score >= Pts(50)
  /\ Len(call.verdict.reasons) = 6
  /\ ~HasContextLine(call.verdict.reasons)

\* the pixel extractor of the call in hand decoded the image and ran its
\* sub-analyses
PixelAnalysed ==
  /\ WeightedCall
  /\ Attempts("pixel")
  /\ ~Fails("pixel", call.input.env)
  /\ call.input.env.crash.x # "pixel"

\* C21: for an image whose larger dimension exceeds 1024,
\* analyze_pixel_level_features hands its sub-analyses an array whose
\* larger dimension is at most 1024, whichever optional libraries are
\* installed.
C21_ResizedBeforeAnalysis ==
  (PixelAnalysed
   /\ Max(call.input.env.res.img.size[1], call.input.env.res.img.size[2]) > 1024) =>
    Max(resized(call.input.env.res.img.size)[1],
        resized(call.input.env.res.img.size)[2]) <= 1024

\* whether the metadata extractor's own result of the call in hand has
\* detected = true
MetadataFired ==
  analyze_image_metadata(call.input.env.isfile, call.input.env.res,
                         call.input.env.net.metadata, call.input.env.crash).result.detected

VisualFired ==
  analyze_visual_patterns(call.input.env.isfile, call.input.env.res,
                          call.input.env.net.visual, call.input.env.crash).result.detected

\* the pixel extractor sets detected exactly when its score is at least 35
PixelFired == call.verdict.details.pixel_score >= Pts(35)

UrlFired == url_check[call.input.image_url].detected

\* C23: on the weighted path detection_method lists, in the order URL
\* patterns, metadata, pixel-or-visual, the extractors whose own result has
\* detected = true, 'advanced pixel analysis' standing for both when pixel
\* and visual fired; it is 'heuristic analysis' when none fired.
C23_DetectionMethod ==
  WeightedCall =>
    call.verdict.detection_method
      = (IF ~(UrlFired \/ MetadataFired \/ VisualFired \/ PixelFired)
         THEN <<"heuristic analysis">>
         ELSE (IF UrlFired THEN <<"URL patterns">> ELSE <<>>)
              \o (IF MetadataFired THEN <<"metadata">> ELSE <<>>)
              \o (IF PixelFired THEN <<"advanced pixel analysis">> ELSE <<>>)
              \o (IF VisualFired /\ ~PixelFired THEN <<"visual patterns">> ELSE <<>>))

\* metadata, visual and pixel analysis all fired: the label names the pixel
\* analysis and not the visual one
C23_Witness ==
  /\ WeightedCall
  /\ MetadataFired
  /\ VisualFired
  /\ PixelFired
  /\ call.verdict.detection_method = <<"metadata", "advanced pixel analysis">>

\* the metadata extractor of the call in hand opened the image and went
\* through all of its steps
MetadataAnalysed ==
  /\ WeightedCall
  /\ Attempts("metadata")
  /\ ~Fails("metadata", call.input.env)
  /\ call.input.env.crash.x # "metadata"

\* the points the rules of C22 give an image
MetadataRulePoints(img) ==
  (IF ~img.camera /\ img.format \in {"JPEG", "PNG"} THEN 25 ELSE 0)
  + (IF img.size \in common_ai_sizes THEN 20 ELSE 0)
  + (IF img.size[1] = img.size[2] /\ img.size[1] \in {512, 768, 1024} THEN 15 ELSE 0)

C24_NormalizedScore ==
  (AnalyzeTextCall /\ Truthy(call.input.text)) =>
    LET total_score == WeightSum(text_hits[call.input.text])
        clamped3 == Min(3 * Pts(100), Max(0, 2000 * total_score + 3 * Pts(30)))
    IN  /\ 3 * call.verdict.score - clamped3 <= 15
        /\ clamped3 - 3 * call.verdict.score <= 15
        /\ call.verdict.score >= 0
        /\ call.verdict.score <= Pts(100)
        /\ text_hits[call.input.text] = <<>> => call.verdict.score = Pts(30)

\* six negative keywords: total_score -48, -32 + 30 is raised to 0
C24_Witness ==
  /\ AnalyzeTextCall
  /\ call.input.text = D_nylon
  /\ WeightSum(text_hits[D_nylon]) = -48
  /\ call.verdict.score = 0

Weighty(hit) == Abs(hit.weight) >= 7

\* the reason the rules of C25 give a match of weight magnitude 7 or more
RuleReason(hit) ==
  <<IF hit.category = "negative" THEN "may not be sustainable"
    ELSE IF hit.category = "high_score" THEN "strong sustainability indicator"
    ELSE "material/method",
    hit.keyword>>

\* C25: analyze_text_sustainability gives a reason only for matches of
\* weight magnitude 7 or more (a positive one for the high and medium
\* categories, a cautionary one for the negative category, none for the low
\* category), at most 5 of them and in the order the matches were found,
\* and lists each matched keyword at most once in keywords_found.
C25_Reasons ==
  (AnalyzeTextCall /\ Truthy(call.input.text)) =>
    LET weighty == SelectSeq(text_hits[call.input.text], Weighty)
    IN  /\ Len(call.verdict.reasons) = Min(5, Len(weighty))
        /\ \A i \in 1..Len(call.verdict.reasons) :
             call.verdict.reasons[i] = RuleReason(weighty[i])
        /\ NoRepeats(call.verdict.keywords_found)
        /\ \A i \in 1..Len(text_hits[call.input.text]) :
             \E j \in 1..Len(call.verdict.keywords_found) :
               call.verdict.keywords_found[j] = text_hits[call.input.text][i].keyword

\* the bamboo basket: 'handwoven' of the low category is found and gets no
\* reason, the other matches give more reasons than the five returned
C25_Witness ==
  /\ AnalyzeTextCall
  /\ call.input.text = combined_text_of(T_basket, D_basket)
  /\ \E i \in 1..Len(text_hits[call.input.text]) :
       text_hits[call.input.text][i].category = "low_score"
  /\ Len(SelectSeq(text_hits[call.input.text], Weighty)) > 5
  /\ Len(call.verdict.reasons) = 5

\* C26: for empty text the text extractor returns the no-input result
\* (score 0.0, no keyword, no reason) without scanning, and
\* classify_product_sustainability, given neither title nor description,
\* returns is_sustainable false.
C26_EmptyText ==
  /\ (AnalyzeTextCall /\ ~Truthy(call.input.text)) =>
       call.verdict = [score |-> 0, keywords_found |-> <<>>, reasons |-> <<>>]
  /\ (ClassifyCall /\ ~Truthy(call.input.title) /\ ~Truthy(call.input.description)) =>
       /\ call.verdict.is_sustainable = FALSE
       /\ call.verdict.text_score = 0
       /\ call.verdict.keywords_found = <<>>
       /\ call.verdict.reasons = << <<"Product may not meet sustainability criteria">> >>

\* a product with title None and description '': final 0.7*0 + 0.3*55
C26_Witness ==
  /\ ClassifyCall
  /\ call.input.title = None
  /\ call.input.description = <<>>
  /\ call.verdict.score = 16500
  /\ call.verdict.is_sustainable = FALSE

\* C27: a verdict that detect_ai_image produces by weighted combination has
\* url_score 0 and does not list 'URL patterns' in detection_method: every
\* URL match scores at least 80 and takes the short-circuit, so the URL
\* weight of 0.25 adds nothing to a combined score.
C27_UrlNeverWeighted ==
  (DetectCall /\ call.path = "weighted") =>
    /\ call.verdict.details.url_score = 0
    /\ \A i \in 1..Len(call.verdict.detection_method) :
         call.verdict.detection_method[i] # "URL patterns"
    /\ ~url_check[call.input.image_url].detected
    /\ call.combined * 100
         = call.verdict.details.metadata_score * 20 + call.verdict.details.visual_score * 15
           + call.verdict.details.pixel_score * 40

\* a weighted verdict of "AI generated" on shop.io/p1.jpg, which matches no
\* pattern: the metadata analysis is named first
C27_Witness ==
  /\ DetectCall
  /\ call.path = "weighted"
  /\ call.input.image_url = U_shop
  /\ call.verdict.is_ai_generated
  /\ call.verdict.details.url_score = 0
  /\ call.verdict.detection_method[1] = "metadata"

\* C28: on the weighted path the combined score never reaches 70 (the
\* metadata score is at most 90, the visual score at most 60, the pixel
\* score at most 100, the URL score 0, which gives at most 67), so
\* confidence_level 'high' comes from the URL short-circuit only.
C28_HighOnlyByUrl ==
  DetectCall =>
    /\ call.path = "weighted" =>
         /\ call.verdict.details.metadata_score <= Pts(90)
         /\ call.verdict.details.visual_score <= Pts(60)
         /\ call.verdict.details.pixel_score <= Pts(100)
         /\ call.combined <= Pts(67)
         /\ call.verdict.details.confidence_level # "high"
    /\ ("confidence_level" \in DOMAIN call.verdict.details
        /\ call.verdict.details.confidence_level = "high") => call.path = "short_circuit"

\* the three image extractors at their largest scores: 18 + 9 + 40 = 67,
\* band 'medium'
C28_Witness ==
  /\ DetectCall
  /\ call.path = "weighted"
  /\ call.verdict.details.metadata_score = Pts(90)
  /\ call.verdict.details.visual_score = Pts(60)
  /\ call.verdict.details.pixel_score = Pts(100)
  /\ call.combined = Pts(67)
  /\ call.verdict.details.confidence_level = "medium"

\* C29: in every result of classify_product_sustainability is_sustainable,
\* decided on the unrounded final score, is true exactly when the reported
\* two-decimal score is at least 60, that is exactly when
\* get_sustainability_badge_info of that score is 'Sustainable Product' or
\* 'Highly Sustainable': no keyword total puts the two on different sides.
C29_VerdictMatchesScore ==
  (ClassifyCall \/ call.fn = "score_total") =>
    /\ call.verdict.is_sustainable <=> (call.verdict.score >= Pts(60))
    /\ call.verdict.is_sustainable
         <=> (get_sustainability_badge_info(call.verdict.score)
                \in {"Sustainable Product", "Highly Sustainable"})

\* the two totals next to the threshold: 48 gives text 62.0 and final 59.9,
\* 49 gives text 62.67 and final 60.37
C29_Witness ==
  /\ call.fn = "score_total"
  /\ call.input.total_score = 49
  /\ call.verdict.text_score = 62670
  /\ call.verdict.score = 60370
  /\ call.verdict.is_sustainable

\* the weight of the first category that lists the keyword
CategoryWeight(keyword) ==
  LET c == CHOOSE c \in 1..Len(SUSTAINABLE_KEYWORDS) :
             /\ \E i \in 1..Len(SUSTAINABLE_KEYWORDS[c].keywords) :
                  SUSTAINABLE_KEYWORDS[c].keywords[i] = keyword
             /\ \A d \in 1..(c - 1) :
                  \A i \in 1..Len(SUSTAINABLE_KEYWORDS[d].keywords) :
                    SUSTAINABLE_KEYWORDS[d].keywords[i] # keyword
  IN  SUSTAINABLE_KEYWORDS[c].weight

RECURSIVE SingleWeightSum(_)
SingleWeightSum(keywords) ==
  IF keywords = <<>> THEN 0
  ELSE CategoryWeight(Head(keywords)) + SingleWeightSum(Tail(keywords))

\* C30: each keyword reported in keywords_found contributes the weight of
\* exactly one category to total_score and yields at most one reason:
\* total_score is the sum, over the distinct reported keywords, of the
\* keyword's single category weight, also for a keyword listed in two
\* categories and for keywords that are substrings of other keywords.
C30_SingleCategoryWeight ==
  (AnalyzeTextCall /\ Truthy(call.input.text)) =>
    /\ \A j \in 1..Len(call.verdict.keywords_found) :
         /\ Cardinality({i \in 1..Len(text_hits[call.input.text]) :
                           text_hits[call.input.text][i].keyword
                             = call.verdict.keywords_found[j]}) = 1
         /\ Cardinality({i \in 1..Len(call.verdict.reasons) :
                           call.verdict.reasons[i][2] = call.verdict.keywords_found[j]}) <= 1
    /\ WeightSum(text_hits[call.input.text]) = SingleWeightSum(call.verdict.keywords_found)
    /\ call.verdict.score
         = normalized_text_score(SingleWeightSum(call.verdict.keywords_found))

====
